---- MODULE Spec2Model ----
(***************************************************************************)
(* The HTTP/1.1 wire codec of rust-http-server: the request-line parser,   *)
(* the header-line parser, the Headers map and the incremental request     *)
(* parser HttpRequest::parse_from driven by a byte source; the streaming   *)
(* ResponseWriter; the handlers and HttpServer::handle_connection that     *)
(* use them; the accept loop HttpServer::listen and its shutdown.          *)
(*                                                                         *)
(* A byte slice (&[u8]) is a sequence of bytes and a String a sequence of  *)
(* chars; a byte or an ASCII char is written as a one-character string.    *)
(* INVALID is a byte that is not valid UTF-8 (0xFF) and REPL the char      *)
(* U+FFFD that String::from_utf8_lossy puts in its place (3 bytes long).   *)
(***************************************************************************)
EXTENDS Integers, Sequences, FiniteSets, TLC

VARIABLES
    input,      \* all the bytes the peer sends on the connection
    parse,      \* the activation of HttpRequest::parse_from, a record:
                \*   pos           how many bytes of input conn.read has handed out
                \*   eof           a conn.read has returned 0 bytes
                \*   open          the peer keeps the connection open after the
                \*                 input: a read at its end does not return
                \*   first_read    how many bytes the first conn.read returned
                \*   buffer        the bytes buffer[..buffer_len]
                \*   buffer_len    buffer_len (usize, kept in its signed reading:
                \*                 -k stands for the wrapped value 2^64 - k)
                \*   parser_state, request_line, headers, body
                \*                 the fields of request
                \*   outcome       "running", or how parse_from ended: "ok"
                \*                 (Ok(request)), "err" (Err), "panic", or "hang"
                \*                 (the loop never exits)
    headers,    \* a Headers value its caller inserts into and looks up
    call,       \* the calls a caller makes directly on a parser or on headers,
                \* in order, with their arguments
    ret,        \* what the last of them returned
    writer,     \* the ResponseWriter of a connection, a record:
                \*   state    the WriterState
                \*   wire     what writer.write_all has put on the TcpStream, one
                \*            entry per call of it: what was written and its bytes
                \*   broken   the TcpStream fails every write (the peer is gone)
    task,       \* the activation of HttpServer::handle_connection and of the
                \* handler it dispatches to: the await point it stands at (pc)
                \* and its locals
    server      \* the process: main, the task running HttpServer::listen, the
                \* one-shot channel, and the connection tasks spawned

vars == <<input, parse, headers, call, ret, writer, task, server>>

\* no connection is being served
NotServing == writer = <<>> /\ task = <<>> /\ server = <<>>

\* ------------------------------------------------------------------ values

INVALID == "xFF"
REPL == "U+FFFD"
CR == "\r"
LF == "\n"
CRLF == <<CR, LF>>

None == <<>>
Some(x) == <<x>>

\* Result<(Option<T>, usize)>: Err, or Ok((value, consumed))
Err == [ok |-> FALSE, value |-> None, consumed |-> 0]
Ok(v, n) == [ok |-> TRUE, value |-> v, consumed |-> n]

\* ----------------------------------------------------- std string helpers

UpperChars == <<"A","B","C","D","E","F","G","H","I","J","K","L","M",
                "N","O","P","Q","R","S","T","U","V","W","X","Y","Z">>
LowerChars == <<"a","b","c","d","e","f","g","h","i","j","k","l","m",
                "n","o","p","q","r","s","t","u","v","w","x","y","z">>
Digits == <<"0","1","2","3","4","5","6","7","8","9">>

\* char::is_whitespace, on the chars of the model
IsWhitespace(c) == c \in {" ", "\t", LF, "\f", CR}

\* String::from_utf8_lossy(data): every invalid byte becomes U+FFFD
from_utf8_lossy(data) ==
    [i \in 1..Len(data) |-> IF data[i] = INVALID THEN REPL ELSE data[i]]

\* str::len: the length in bytes of the UTF-8 encoding
str_len(s) == Len(s) + 2 * Cardinality({i \in 1..Len(s) : s[i] = REPL})

to_lowercase(s) ==
    [i \in 1..Len(s) |->
        IF \E k \in 1..26 : UpperChars[k] = s[i]
        THEN LowerChars[CHOOSE k \in 1..26 : UpperChars[k] = s[i]]
        ELSE s[i]]

to_uppercase(s) ==
    [i \in 1..Len(s) |->
        IF \E k \in 1..26 : LowerChars[k] = s[i]
        THEN UpperChars[CHOOSE k \in 1..26 : LowerChars[k] = s[i]]
        ELSE s[i]]

\* the index of the first occurrence of the two-char pattern pat in s, or 0
find2(s, pat) ==
    LET hits == {i \in 1..(Len(s) - 1) : s[i] = pat[1] /\ s[i + 1] = pat[2]}
    IN IF hits = {} THEN 0 ELSE CHOOSE i \in hits : \A j \in hits : i <= j

\* the index of the first occurrence of the char c in s, or 0
find1(s, c) ==
    LET hits == {i \in 1..Len(s) : s[i] = c}
    IN IF hits = {} THEN 0 ELSE CHOOSE i \in hits : \A j \in hits : i <= j

drop(s, n) == SubSeq(s, n + 1, Len(s))

starts_with(s, pat) == Len(s) >= Len(pat) /\ SubSeq(s, 1, Len(pat)) = pat

trim_start(s) ==
    LET keep == {i \in 1..Len(s) : ~IsWhitespace(s[i])}
    IN IF keep = {} THEN <<>>
       ELSE SubSeq(s, CHOOSE i \in keep : \A j \in keep : i <= j, Len(s))

trim_end(s) ==
    LET keep == {i \in 1..Len(s) : ~IsWhitespace(s[i])}
    IN IF keep = {} THEN <<>>
       ELSE SubSeq(s, 1, CHOOSE i \in keep : \A j \in keep : i >= j)

trim(s) == trim_end(trim_start(s))

\* str::split_whitespace, collected: the maximal runs of non-whitespace chars
RECURSIVE split_whitespace(_)
split_whitespace(s) ==
    IF s = <<>> THEN <<>>
    ELSE IF IsWhitespace(s[1]) THEN split_whitespace(Tail(s))
    ELSE LET n == CHOOSE k \in 1..Len(s) :
                    /\ \A j \in 1..k : ~IsWhitespace(s[j])
                    /\ (k = Len(s) \/ IsWhitespace(s[k + 1]))
         IN <<SubSeq(s, 1, n)>> \o split_whitespace(drop(s, n))

\* ------------------------------------------------------------- request.rs

\* impl TryFrom<&str> for HttpMethod
HttpMethod_try_from(value) ==
    LET u == to_uppercase(value)
    IN IF u = <<"G","E","T">> THEN Some("Get")
       ELSE IF u = <<"P","O","S","T">> THEN Some("Post")
       ELSE None

\* impl TryFrom<&str> for HttpVersion
HttpVersion_try_from(value) ==
    IF to_uppercase(value) = <<"H","T","T","P","/","1",".","1">>
    THEN Some("HTTP11") ELSE None

\* RequestLine::parse_request_line
parse_request_line(data) ==
    LET line_str == from_utf8_lossy(data)
        at == find2(line_str, CRLF)
    IN IF at = 0 THEN Ok(None, 0)
       ELSE
        LET line == SubSeq(line_str, 1, at - 1)
            p == str_len(line) + 2
            parts == split_whitespace(line)
        IN IF Len(parts) < 3 THEN Err
           ELSE
            LET method == HttpMethod_try_from(parts[1])
                target_raw == parts[2]
                version == HttpVersion_try_from(parts[3])
            IN IF method = None THEN Err
               ELSE IF ~starts_with(target_raw, <<"/">>) THEN Err
               ELSE IF version = None THEN Err
               ELSE Ok(Some([method |-> method[1],
                             target |-> to_lowercase(trim(target_raw)),
                             version |-> version[1]]), p)

\* usize::from_str_radix / str::parse::<usize>: an optional '+', then one or
\* more digits of the radix. (PosOverflow needs a value above 2^64 - 1, more
\* digits than any input of the model has.)
DigitChars == <<"0","1","2","3","4","5","6","7","8","9","a","b","c","d","e","f">>

digit_value(c, radix) ==
    LET lc == to_lowercase(<<c>>)[1]
        hits == {k \in 1..radix : DigitChars[k] = lc}
    IN IF hits = {} THEN -1 ELSE (CHOOSE k \in hits : TRUE) - 1

RECURSIVE digits_value(_, _)
digits_value(d, radix) ==
    IF d = <<>> THEN 0
    ELSE digits_value(SubSeq(d, 1, Len(d) - 1), radix) * radix
         + digit_value(d[Len(d)], radix)

usize_from_str_radix(s, radix) ==
    LET d == IF s # <<>> /\ s[1] = "+" THEN Tail(s) ELSE s
    IN IF d = <<>> THEN None
       ELSE IF \E i \in 1..Len(d) : digit_value(d[i], radix) < 0 THEN None
       ELSE Some(digits_value(d, radix))

\* ------------------------------------------------------------- headers.rs

\* Headers::new: the empty HashMap<String, String>
Headers_new == [k \in {} |-> <<>>]

\* Headers::insert: the key is stored as given
Headers_insert(h, k, v) ==
    [x \in (DOMAIN h) \cup {k} |-> IF x = k THEN v ELSE h[x]]

\* Headers::get: the query key is lowercased, the stored keys are not
Headers_get(h, k) ==
    IF to_lowercase(k) \in DOMAIN h THEN Some(h[to_lowercase(k)]) ELSE None

\* (the backquote char is written "BACKQUOTE")
TokenSpecials == {"!", "#", "$", "%", "&", "'", "*", "+", "-", ".", "^", "_",
                  "BACKQUOTE", "|", "~"}

\* valid_field_name checking only that the name is not empty
valid_field_name_any(s) == s # <<>>

\* Headers::valid_field_name
valid_field_name(s) ==
    /\ s # <<>>
    /\ \A i \in 1..Len(s) :
        \/ \E k \in 1..26 : UpperChars[k] = s[i] \/ LowerChars[k] = s[i]
        \/ \E k \in 1..10 : Digits[k] = s[i]
        \/ s[i] \in TokenSpecials

\* Headers::parse_headers: at most one header line off the front of data
parse_headers(data) ==
    LET header_str == from_utf8_lossy(data)
        at == find2(header_str, CRLF)
    IN IF at = 0 THEN Ok(None, 0)
       ELSE
        LET p == str_len(SubSeq(header_str, 1, at - 1)) + 2
            raw_header == trim(SubSeq(header_str, 1, at - 1))
            colon == find1(raw_header, ":")
            field_name == SubSeq(raw_header, 1, colon - 1)
            field_value == drop(raw_header, colon)
        IN IF raw_header = <<>> THEN Ok(None, p)
           ELSE IF colon = 0 THEN Err
           ELSE IF trim_end(field_name) # field_name THEN Err
           ELSE IF ~valid_field_name(field_name) THEN Err
           ELSE Ok(Some(<<to_lowercase(trim(field_name)), trim(field_value)>>), p)

\* ------------------------------------------- request.rs: HttpRequest::parse_from

\* let mut buffer = [0u8; 1024]
BufSize == 1024

\* overflow checks on (debug profile: a usize underflow panics) or off
\* (release profile: it wraps)
Builds == {"debug", "release"}

\* HttpRequest::new() and the locals of parse_from, before the loop; of the
\* source: how much of the input has been read (pos), whether a read has
\* returned 0 (eof), and whether the peer keeps the connection open after it
\* has sent the input (open) or has shut down its sending side
NewParse ==
    [pos |-> 0, eof |-> FALSE, open |-> FALSE, first_read |-> 0,
     buffer |-> <<>>, buffer_len |-> 0,
     parser_state |-> "Initialized", request_line |-> None,
     headers |-> Headers_new, body |-> <<>>, outcome |-> "running"]

\* buffer.copy_within(n.., 0); buffer_len -= n;
Shift(p, n, build) ==
    IF n > BufSize THEN [p EXCEPT !.outcome = "panic"]
    ELSE IF n > p.buffer_len
    THEN IF build = "debug" THEN [p EXCEPT !.outcome = "panic"]
         ELSE [p EXCEPT !.buffer = <<>>, !.buffer_len = p.buffer_len - n]
    ELSE [p EXCEPT !.buffer = drop(p.buffer, n), !.buffer_len = p.buffer_len - n]

\* &buffer[..buffer_len] with a wrapped buffer_len: index out of range
BadSlice(p) == p.buffer_len < 0 \/ p.buffer_len > BufSize

\* the top of the loop: read only when the buffer is empty; the source hands
\* out n bytes (0 at end of input)
ReadMore(p, inp, n) ==
    IF p.buffer_len = 0 /\ p.parser_state # "Done"
    THEN [p EXCEPT !.buffer = SubSeq(inp, p.pos + 1, p.pos + n),
                   !.buffer_len = n,
                   !.pos = p.pos + n,
                   !.eof = p.eof \/ n = 0,
                   !.first_read = IF p.pos = 0 THEN n ELSE p.first_read]
    ELSE p

\* ParserState::Initialized
MatchInitialized(p, build) ==
    IF BadSlice(p) THEN [p EXCEPT !.outcome = "panic"]
    ELSE
     LET r == parse_request_line(p.buffer)
         q == Shift([p EXCEPT !.request_line = r.value], r.consumed, build)
     IN IF ~r.ok THEN [p EXCEPT !.outcome = "err"]
        ELSE IF q.outcome = "panic" THEN q
        ELSE IF r.value # None THEN [q EXCEPT !.parser_state = "ParsingHeaders"]
        ELSE q

\* the entry(..).or_default() merge of ParsingHeaders
MergeHeader(h, field_name, field_value) ==
    LET key == to_lowercase(trim(field_name))
        e == IF key \in DOMAIN h THEN h[key] ELSE <<>>
        v == IF e = <<>> THEN trim(field_value)
             ELSE e \o <<",", " ">> \o trim(field_value)
    IN [x \in (DOMAIN h) \cup {key} |-> IF x = key THEN v ELSE h[x]]

\* the parser made ready for a next request when the blank line ends the headers
AfterHeadersAgain(h) == "Initialized"

\* the state chosen when the blank line ends the headers, content-length
\* looked at first
AfterHeadersLengthFirst(h) ==
    IF Headers_get(h, <<"c","o","n","t","e","n","t","-","l","e","n","g","t","h">>) # None
    THEN "ParsingBodyFull"
    ELSE IF Headers_get(h, <<"t","r","a","n","s","f","e","r","-","e","n","c","o","d","i","n","g">>)
              = Some(<<"c","h","u","n","k","e","d">>)
    THEN "ParsingBodyChunked"
    ELSE "Done"

\* the state chosen when the blank line ends the headers
AfterHeaders(h) ==
    IF Headers_get(h, <<"t","r","a","n","s","f","e","r","-","e","n","c","o","d","i","n","g">>)
         = Some(<<"c","h","u","n","k","e","d">>)
    THEN "ParsingBodyChunked"
    ELSE IF Headers_get(h, <<"c","o","n","t","e","n","t","-","l","e","n","g","t","h">>) = None
    THEN "Done"
    ELSE "ParsingBodyFull"

\* ParserState::ParsingHeaders
MatchParsingHeaders(p, build) ==
    IF BadSlice(p) THEN [p EXCEPT !.outcome = "panic"]
    ELSE
     LET r == parse_headers(p.buffer)
         q == IF r.ok /\ r.value # None
              THEN Shift([p EXCEPT !.headers =
                            MergeHeader(p.headers, r.value[1][1], r.value[1][2])],
                         r.consumed, build)
              ELSE p
     IN IF ~r.ok THEN [p EXCEPT !.outcome = "err"]
        ELSE IF q.outcome = "panic" \/ BadSlice(q) THEN [q EXCEPT !.outcome = "panic"]
        ELSE IF starts_with(q.buffer, CRLF)
        THEN [Shift(q, 2, build) EXCEPT !.parser_state = AfterHeaders(q.headers)]
        ELSE q

Min(a, b) == IF a <= b THEN a ELSE b

\* to_copy without the min: all that is buffered
ToCopyAll(len, content_length, copied) == len

\* let to_copy = buffer_len.min(content_length - request.body.len())
ToCopy(len, content_length, copied) == Min(len, content_length - copied)

\* ParserState::ParsingBodyFull (buffer_len is never wrapped here: every
\* wrapping Shift is followed by a slice of the buffer or by Done)
MatchParsingBodyFull(p, build) ==
    LET h == Headers_get(p.headers, <<"c","o","n","t","e","n","t","-","l","e","n","g","t","h">>)
        cl == usize_from_str_radix(h[1], 10)
        to_copy == ToCopy(p.buffer_len, cl[1], Len(p.body))
        q == Shift([p EXCEPT !.body = p.body \o SubSeq(p.buffer, 1, to_copy)],
                   to_copy, build)
    IN IF h = None THEN [p EXCEPT !.parser_state = "Done"]
       ELSE IF cl = None THEN [p EXCEPT !.outcome = "err"]
       ELSE IF Len(q.body) = cl[1] THEN [q EXCEPT !.parser_state = "Done"]
       ELSE q

\* ParserState::ParsingBodyChunked
MatchParsingBodyChunked(p, build) ==
    IF BadSlice(p) THEN [p EXCEPT !.outcome = "panic"]
    ELSE
     LET at == find2(p.buffer, CRLF)
         size_end == at - 1
         chunk_size == usize_from_str_radix(
                           from_utf8_lossy(SubSeq(p.buffer, 1, size_end)), 16)
         chunk_total == size_end + 2 + chunk_size[1] + 2
         data_start == size_end + 2
         data_end == data_start + chunk_size[1]
     IN IF at = 0 THEN [p EXCEPT !.outcome = "err"]
        ELSE IF chunk_size = None THEN [p EXCEPT !.outcome = "err"]
        ELSE IF chunk_size[1] = 0
        THEN LET q == Shift(p, size_end + 4, build)
             IN IF q.outcome = "panic" THEN q
                ELSE [q EXCEPT !.parser_state = "Done"]
        ELSE IF p.buffer_len < chunk_total
        THEN [p EXCEPT !.outcome = "ok"]       \* break: leaves the loop
        ELSE Shift([p EXCEPT !.body =
                      p.body \o SubSeq(p.buffer, data_start + 1, data_end)],
                   data_end + 2, build)

\* ParserState::Done => break, then Ok(request)
MatchDone(p) == [p EXCEPT !.outcome = "ok"]

\* An iteration that reads nothing new and changes nothing is repeated
\* unchanged for ever: the loop hangs.
Settle(p, q) == IF q = p THEN [q EXCEPT !.outcome = "hang"] ELSE q

\* one iteration of the loop: the read at its top, then the match
LoopIteration(p, inp, n, build) ==
    LET r == ReadMore(p, inp, n)
    IN CASE r.parser_state = "Initialized" -> Settle(p, MatchInitialized(r, build))
         [] r.parser_state = "ParsingHeaders" -> Settle(p, MatchParsingHeaders(r, build))
         [] r.parser_state = "ParsingBodyFull" -> Settle(p, MatchParsingBodyFull(r, build))
         [] r.parser_state = "ParsingBodyChunked" -> Settle(p, MatchParsingBodyChunked(r, build))
         [] OTHER -> Settle(p, MatchDone(r))

\* what conn.read may return: 0 only at end of input, else what has arrived,
\* at most the room in the buffer; nothing, the read never returning, when all
\* that the peer sends has been read and the peer keeps the connection open
ReadSizes(p, inp) ==
    IF p.buffer_len # 0 \/ p.parser_state = "Done" THEN {0}    \* no read
    ELSE IF p.pos = Len(inp) THEN (IF p.open THEN {} ELSE {0})
    ELSE 1..Min(Len(inp) - p.pos, BufSize)

\* parse_from on a source that hands out all it has at every read
RECURSIVE RunWhole(_, _, _)
RunWhole(p, inp, build) ==
    IF p.outcome # "running" THEN p
    ELSE RunWhole(LoopIteration(p, inp, Min(Len(inp) - p.pos, BufSize), build),
                  inp, build)

\* ------------------------------------------------ the peer and its requests

\* bounds of the requests the peer sends
MaxBody == 3
MaxHeaders == 2

RECURSIVE SeqsUpTo(_, _)
SeqsUpTo(S, n) ==
    IF n = 0 THEN {<<>>}
    ELSE LET r == SeqsUpTo(S, n - 1)
         IN r \cup {Append(x, c) : x \in r, c \in S}

\* all the ways to cut b into non-empty chunks
RECURSIVE Compositions(_)
Compositions(b) ==
    IF b = <<>> THEN {<<>>}
    ELSE UNION {{<<SubSeq(b, 1, k)>> \o rest : rest \in Compositions(drop(b, k))}
                : k \in 1..Len(b)}

RECURSIVE Flatten(_)
Flatten(ss) == IF ss = <<>> THEN <<>> ELSE ss[1] \o Flatten(Tail(ss))

RECURSIVE Hex(_)
Hex(n) == IF n < 16 THEN <<DigitChars[n + 1]>>
          ELSE Hex(n \div 16) \o <<DigitChars[(n % 16) + 1]>>

RECURSIVE Decimal(_)
Decimal(n) == IF n < 10 THEN <<Digits[n + 1]>>
              ELSE Decimal(n \div 10) \o <<Digits[(n % 10) + 1]>>

Prefixes(x) == {SubSeq(x, 1, k) : k \in 0..(Len(x) - 1)}

BodyBytes == {"a", CR}
Bodies == SeqsUpTo(BodyBytes, MaxBody)

GetLine == <<"G", "E", "T", " ", "/", " ", "H", "T", "T", "P", "/", "1", ".", "1">>
PostLine == <<"P", "O", "S", "T", " ", "/", " ", "H", "T", "T", "P", "/", "1", ".", "1">>

\* a chunked request: every chunk as <hex-size> CRLF <data> CRLF, then 0 CRLF CRLF
ChunkedHead ==
    PostLine \o CRLF \o <<"T", "r", "a", "n", "s", "f", "e", "r", "-", "E", "n", "c", "o", "d", "i", "n", "g", ":", " ", "c", "h", "u", "n", "k", "e", "d">> \o CRLF \o CRLF
EncodeChunk(c) == Hex(Len(c)) \o CRLF \o c \o CRLF
ChunkedRequest(chunks) ==
    ChunkedHead \o Flatten([i \in 1..Len(chunks) |-> EncodeChunk(chunks[i])])
      \o <<"0">> \o CRLF \o CRLF
ChunkedCases ==
    UNION {{[input |-> ChunkedRequest(ch), body |-> b, head |-> Len(ChunkedHead)]
            : ch \in Compositions(b)} : b \in Bodies}

\* a request with Content-Length: N, its N body bytes, and bytes after them
ContentLengthHead(n) ==
    PostLine \o CRLF \o <<"C", "o", "n", "t", "e", "n", "t", "-", "L", "e", "n", "g", "t", "h", ":", " ">> \o Decimal(n) \o CRLF \o CRLF
Extras == {<<>>, <<"z">>}
ContentLengthCases ==
    {[input |-> ContentLengthHead(Len(b)) \o b \o x, body |-> b,
      head |-> Len(ContentLengthHead(Len(b)))] : b \in Bodies, x \in Extras}

\* a request with up to MaxHeaders header lines "name: value" and no body
FieldNames == {<<"K">>, <<"k">>}
FieldValues == {<<>>, <<"v">>, <<"w">>}
HeaderLine(f) == f[1] \o <<":", " ">> \o f[2]
HeaderRequest(fields) ==
    GetLine \o CRLF
      \o Flatten([i \in 1..Len(fields) |-> HeaderLine(fields[i]) \o CRLF]) \o CRLF
HeaderCases ==
    {[input |-> HeaderRequest(fs), fields |-> fs]
        : fs \in SeqsUpTo(FieldNames \X FieldValues, MaxHeaders)}

\* requests cut short, and malformed ones
TruncatedInputs ==
    Prefixes(ContentLengthHead(2) \o <<"a", "a">>)
      \cup Prefixes(ChunkedRequest(<<<<"a">>, <<"a", "a">>>>))
OddInputs ==
    { <<"G", "E", "T", " ", "/", INVALID, " ", "H", "T", "T", "P", "/", "1", ".", "1", CR, LF, CR, LF>>,
      <<"G", "E", "T", " ", "/", " ", "H", "T", "T", "P", "/", "1", ".", "1", " ", "x", CR, LF, CR, LF>>,
      <<"P", "O", "S", "T", " ", "/", " ", "H", "T", "T", "P", "/", "1", ".", "1", CR, LF, "C", "o", "n", "t", "e", "n", "t", "-", "L", "e", "n", "g", "t", "h", ":", " ", "x", CR, LF, CR, LF>>,
      <<"G", "E", "T", " ", "/", " ", "H", "T", "T", "P", "/", "1", ".", "1", CR, LF, "K", " ", "v", CR, LF, CR, LF>>,
      <<"G", "E", "T", " ", "/", " ", "H", "T", "T", "P", "/", "1", ".", "1", CR, LF, " ", CR, LF, CR, LF>> }

\* requests with a Transfer-Encoding and a Content-Length, with two
\* Transfer-Encoding lines, and with a Transfer-Encoding that is not chunked
TransferEncodingLine == 
    <<"T", "r", "a", "n", "s", "f", "e", "r", "-", "E", "n", "c", "o", "d", "i", "n", "g", ":",
      " ", "c", "h", "u", "n", "k", "e", "d", CR, LF>>
ContentLengthLine == 
    <<"C", "o", "n", "t", "e", "n", "t", "-", "L", "e", "n", "g", "t", "h", ":", " ", "1", CR,
      LF>>
GzipLine == 
    <<"T", "r", "a", "n", "s", "f", "e", "r", "-", "E", "n", "c", "o", "d", "i", "n", "g", ":",
      " ", "g", "z", "i", "p", CR, LF>>
OneChunk == <<"1", CR, LF, "a", CR, LF, "0", CR, LF, CR, LF>>
FramingInputs ==
    { PostLine \o CRLF \o ContentLengthLine \o TransferEncodingLine \o CRLF \o OneChunk,
      PostLine \o CRLF \o TransferEncodingLine \o ContentLengthLine \o CRLF \o OneChunk,
      PostLine \o CRLF \o TransferEncodingLine \o TransferEncodingLine \o CRLF \o OneChunk,
      PostLine \o CRLF \o GzipLine \o ContentLengthLine \o CRLF \o <<"a">>,
      PostLine \o CRLF \o GzipLine \o CRLF \o OneChunk }

\* chunked requests whose zero size line is followed by something other than
\* CRLF: stray bytes, and a trailer line
TerminatorInputs ==
    { ChunkedHead \o <<"0", CR, LF, "z", "z">>,
      ChunkedHead \o <<"0", CR, LF, "K", ":", "v", CR, LF, CR, LF>> }

Inputs ==
    {c.input : c \in ChunkedCases} \cup {c.input : c \in ContentLengthCases}
      \cup {c.input : c \in HeaderCases} \cup TruncatedInputs \cup OddInputs
      \cup FramingInputs \cup TerminatorInputs

\* ------------------------------------------------------------ parse_from run

Idle == headers = Headers_new /\ call = <<>> /\ ret = None /\ NotServing

\* a connection has been accepted and parse_from is about to enter its loop
Init ==
    /\ input \in Inputs
    /\ parse = NewParse
    /\ Idle

\* One action per match arm: one iteration of the loop of parse_from in that
\* parser state, with the read at its top when the buffer is empty.
IterateInitialized ==
    /\ parse.outcome = "running"
    /\ parse.parser_state = "Initialized"
    /\ \E n \in ReadSizes(parse, input), build \in Builds :
          parse' = Settle(parse, MatchInitialized(ReadMore(parse, input, n), build))
    /\ UNCHANGED <<input, headers, call, ret, writer, task, server>>

IterateParsingHeaders ==
    /\ parse.outcome = "running"
    /\ parse.parser_state = "ParsingHeaders"
    /\ \E n \in ReadSizes(parse, input), build \in Builds :
          parse' = Settle(parse, MatchParsingHeaders(ReadMore(parse, input, n), build))
    /\ UNCHANGED <<input, headers, call, ret, writer, task, server>>

IterateParsingBodyFull ==
    /\ parse.outcome = "running"
    /\ parse.parser_state = "ParsingBodyFull"
    /\ \E n \in ReadSizes(parse, input), build \in Builds :
          parse' = Settle(parse, MatchParsingBodyFull(ReadMore(parse, input, n), build))
    /\ UNCHANGED <<input, headers, call, ret, writer, task, server>>

IterateParsingBodyChunked ==
    /\ parse.outcome = "running"
    /\ parse.parser_state = "ParsingBodyChunked"
    /\ \E n \in ReadSizes(parse, input), build \in Builds :
          parse' = Settle(parse, MatchParsingBodyChunked(ReadMore(parse, input, n), build))
    /\ UNCHANGED <<input, headers, call, ret, writer, task, server>>

IterateDone ==
    /\ parse.outcome = "running"
    /\ parse.parser_state = "Done"
    /\ parse' = Settle(parse, MatchDone(ReadMore(parse, input, 0)))
    /\ UNCHANGED <<input, headers, call, ret, writer, task, server>>

Next ==
    \/ IterateInitialized
    \/ IterateParsingHeaders
    \/ IterateParsingBodyFull
    \/ IterateParsingBodyChunked
    \/ IterateDone

Spec == Init /\ [][Next]_vars

\* ------------------------------------------- the parsers called on their own

\* bounds of the lines handed to the line parsers
MaxTokens == 4
MaxLine == 5

RECURSIVE JoinWith(_, _)
JoinWith(ss, sep) ==
    IF ss = <<>> THEN <<>>
    ELSE IF Len(ss) = 1 THEN ss[1]
    ELSE ss[1] \o sep \o JoinWith(Tail(ss), sep)

\* what follows the line: CRLF, CRLF and the start of a next line, or nothing yet
Ends == {CRLF, CRLF \o <<"K">>, <<>>}

Tokens ==
    { <<"G", "E", "T">>, <<"p", "O", "s", "T">>, <<"P", "U", "T">>, <<"/">>, <<"/", "A", "b">>,
      <<"/", INVALID>>,
      <<"H", "T", "T", "P", "/", "1", ".", "1">>, <<"h", "T", "T", "p", "/", "1", ".", "1">> }

HeaderChars == {"A", "-", ":", " ", "("}

NotParsing == input = <<>> /\ parse = NewParse /\ headers = Headers_new /\ NotServing

\* a caller is about to call RequestLine::parse_request_line(data), data being
\* up to MaxTokens tokens separated by single spaces, and an end
InitRequestLine ==
    /\ NotParsing
    /\ \E ts \in SeqsUpTo(Tokens, MaxTokens), e \in Ends :
          call = <<[op |-> "parse_request_line", data |-> JoinWith(ts, <<" ">>) \o e,
                    tokens |-> ts, end |-> e]>>
    /\ ret = None

\* RequestLine::parse_request_line(data) returns
CallParseRequestLine ==
    /\ ret = None
    /\ call[1].op = "parse_request_line"
    /\ ret' = Some(parse_request_line(call[1].data))
    /\ UNCHANGED <<input, parse, headers, call, writer, task, server>>

NextRequestLine == CallParseRequestLine

SpecRequestLine == InitRequestLine /\ [][NextRequestLine]_vars

\* a caller is about to call Headers::parse_headers(data), data being a line of
\* up to MaxLine chars and an end
InitHeaderLine ==
    /\ NotParsing
    /\ \E ln \in SeqsUpTo(HeaderChars, MaxLine), e \in Ends :
          call = <<[op |-> "parse_headers", data |-> ln \o e, line |-> ln, end |-> e]>>
    /\ ret = None

\* Headers::parse_headers(data) returns
CallParseHeaders ==
    /\ ret = None
    /\ call[1].op = "parse_headers"
    /\ ret' = Some(parse_headers(call[1].data))
    /\ UNCHANGED <<input, parse, headers, call, writer, task, server>>

NextHeaderLine == CallParseHeaders

SpecHeaderLine == InitHeaderLine /\ [][NextHeaderLine]_vars

\* ---------------------------------------------------- a Headers value in use

\* bound of the calls made on the Headers value
MaxCalls == 3

Keys == {<<"K">>, <<"k">>}
Vals == {<<"v">>, <<"w">>}

\* Headers::new()
InitHeaders ==
    /\ input = <<>>
    /\ parse = NewParse
    /\ headers = Headers_new
    /\ call = <<>>
    /\ ret = None
    /\ NotServing

\* headers.insert(k, v): HashMap::insert returns the value it replaces
CallInsert ==
    /\ Len(call) < MaxCalls
    /\ \E k \in Keys, v \in Vals :
         /\ headers' = Headers_insert(headers, k, v)
         /\ ret' = IF k \in DOMAIN headers THEN Some(headers[k]) ELSE None
         /\ call' = Append(call, [op |-> "insert", k |-> k, v |-> v])
    /\ UNCHANGED <<input, parse, writer, task, server>>

\* headers.get(k)
CallGet ==
    /\ Len(call) < MaxCalls
    /\ \E k \in Keys :
         /\ ret' = Headers_get(headers, k)
         /\ call' = Append(call, [op |-> "get", k |-> k, v |-> <<>>])
    /\ UNCHANGED <<input, parse, headers, writer, task, server>>

NextHeaders == CallInsert \/ CallGet

SpecHeaders == InitHeaders /\ [][NextHeaders]_vars

\* ------------------------------------------------------------ response.rs

\* impl fmt::Display for HttpStatus
HttpStatus_fmt(status) ==
    CASE status = "Ok" -> <<"H", "T", "T", "P", "/", "1", ".", "1", " ", "2", "0", "0", " ", "O", "K">>
      [] status = "BadRequest" -> 
    <<"H", "T", "T", "P", "/", "1", ".", "1", " ", "4", "0", "0", " ", "B", "a", "d", " ", "R",
      "e", "q", "u", "e", "s", "t">>
      [] status = "InternalServerError" -> 
    <<"H", "T", "T", "P", "/", "1", ".", "1", " ", "5", "0", "0", " ", "I", "n", "t", "e", "r",
      "n", "a", "l", " ", "S", "e", "r", "v", "e", "r", " ", "E", "r", "r", "o", "r">>

\* the header names and values the server writes
TransferEncoding == <<"T", "r", "a", "n", "s", "f", "e", "r", "-", "E", "n", "c", "o", "d", "i", "n", "g">>
chunked == <<"c", "h", "u", "n", "k", "e", "d">>
ContentLength == <<"C", "o", "n", "t", "e", "n", "t", "-", "L", "e", "n", "g", "t", "h">>
ContentType == <<"C", "o", "n", "t", "e", "n", "t", "-", "T", "y", "p", "e">>
Connection == <<"C", "o", "n", "n", "e", "c", "t", "i", "o", "n">>
close == <<"c", "l", "o", "s", "e">>
text_plain == <<"t", "e", "x", "t", "/", "p", "l", "a", "i", "n">>
text_html == <<"t", "e", "x", "t", "/", "h", "t", "m", "l">>
XContentSHA256 == <<"X", "-", "C", "o", "n", "t", "e", "n", "t", "-", "S", "H", "A", "2", "5", "6">>
XContentLength == <<"X", "-", "C", "o", "n", "t", "e", "n", "t", "-", "L", "e", "n", "g", "t", "h">>

\* HttpResponse::new and the builder methods
HttpResponse_new == [status |-> "Ok", headers |-> Headers_new, body |-> <<>>]
with_status(r, status) == [r EXCEPT !.status = status]
\* with_default_headers with the Content-Length of the empty body of new()
with_default_headers_stale(r) ==
    [r EXCEPT !.headers =
        Headers_insert(Headers_insert(Headers_insert(Headers_new,
            ContentLength, Decimal(Len(HttpResponse_new.body))), Connection, close),
            ContentType, text_plain)]

\* HttpResponse::with_default_headers
with_default_headers(r) ==
    [r EXCEPT !.headers =
        Headers_insert(Headers_insert(Headers_insert(Headers_new,
            ContentLength, Decimal(Len(r.body))), Connection, close), ContentType, text_plain)]
with_header(r, name, value) == [r EXCEPT !.headers = Headers_insert(@, name, value)]
with_body(r, message) == [r EXCEPT !.body = message]

\* the orders in which a HashMap may hand out the keys of h
Orders(h) ==
    {o \in [1..Cardinality(DOMAIN h) -> DOMAIN h] :
        \A i, j \in 1..Cardinality(DOMAIN h) : i # j => o[i] # o[j]}

\* impl fmt::Display for Headers, the map iterated in the order o: "k: v\r\n"
\* for every entry
RECURSIVE Headers_fmt(_, _)
Headers_fmt(h, o) ==
    IF o = <<>> THEN <<>>
    ELSE o[1] \o <<":", " ">> \o h[o[1]] \o CRLF \o Headers_fmt(h, Tail(o))

\* format!("{:x}", Sha256::digest(body)): 64 hex chars that stand for body (the
\* digest is a function of the bytes, taken to be injective)
Sha256_digest(body) == <<"SHA256[">> \o body \o <<"]">>

\* ResponseWriter::from
ResponseWriter_from == [state |-> "Initial", wire |-> <<>>, broken |-> FALSE]

\* self.writer.write_all(bytes).await of a writer method: the bytes go on the
\* wire, or the write fails
sink_write_all(w, what, bytes) ==
    IF w.broken THEN [w |-> w, ok |-> FALSE]
    ELSE [w |-> [w EXCEPT !.wire = Append(@, [what |-> what, bytes |-> bytes])], ok |-> TRUE]

SetState(r, state) == IF r.ok THEN [r EXCEPT !.w.state = state] ELSE r

\* ResponseWriter::write_status
write_status(w, status_line) ==
    SetState(sink_write_all(w, "status", HttpStatus_fmt(status_line) \o CRLF), "WritingHeaders")

\* ResponseWriter::write_headers, the map iterated in the order o
write_headers(w, h, o) ==
    SetState(sink_write_all(w, "headers", Headers_fmt(h, o) \o CRLF),
             IF Headers_get(h, TransferEncoding) = Some(chunked)
             THEN "WritingBodyChunked" ELSE "WritingBodyFull")

\* ResponseWriter::write_body_full
write_body_full(w, response_body) ==
    SetState(sink_write_all(w, "body", response_body), "Done")

\* ResponseWriter::write_chunked_body_done
write_chunked_body_done(w) ==
    SetState(sink_write_all(w, "last_chunk", <<"0">> \o CRLF), "WritingTrailers")

\* ResponseWriter::write_chunked_body
write_chunked_body(w, chunk) ==
    IF chunk = <<>> THEN write_chunked_body_done(w)
    ELSE LET a == sink_write_all(w, "chunk_size", Hex(Len(chunk)) \o CRLF)
             b == sink_write_all(a.w, "chunk_data", chunk)
             c == sink_write_all(b.w, "chunk_end", CRLF)
         IN IF ~a.ok THEN a ELSE IF ~b.ok THEN b ELSE c

\* ResponseWriter::write_trailers, the map of the two trailers iterated in the
\* order o
TrailerHeaders(body) ==
    Headers_insert(Headers_insert(Headers_new, XContentSHA256, Sha256_digest(body)),
                   XContentLength, Decimal(Len(body)))
write_trailers(w, body, o) ==
    LET a == sink_write_all(w, "trailers", Headers_fmt(TrailerHeaders(body), o))
        b == sink_write_all(a.w, "end", CRLF)
    IN IF ~a.ok THEN a ELSE SetState(b, "Done")

\* ResponseWriter::write_all
write_all(w, response, o) ==
    LET a == write_status(w, response.status)
        b == write_headers(a.w, response.headers, o)
        c == write_body_full(b.w, response.body)
    IN IF ~a.ok THEN a ELSE IF ~b.ok THEN b ELSE c

\* ------------------------------------------------- calls on a ResponseWriter

\* bound of the calls made on the writer
MaxWrites == 3

Statuses == {"Ok", "BadRequest", "InternalServerError"}
WriterHeaders ==
    { Headers_new,
      with_header(HttpResponse_new, TransferEncoding, chunked).headers,
      with_header(HttpResponse_new, to_lowercase(TransferEncoding), chunked).headers,
      with_header(with_header(HttpResponse_new, ContentLength, <<"1">>),
                  ContentType, text_plain).headers }
WriterBodies == {<<>>, <<"a">>}
WriterChunks == {<<>>, <<"a">>, <<"b", "c">>}
WriterResponses == {with_default_headers(with_body(HttpResponse_new, <<"a">>))}

\* ResponseWriter::from(conn)
InitWriter ==
    /\ input = <<>> /\ parse = NewParse /\ headers = Headers_new
    /\ call = <<>>
    /\ ret = None
    /\ writer = ResponseWriter_from
    /\ task = <<>>
    /\ server = <<>>

\* a call op(arg) on the writer returns r: the call is logged with the state
\* and the number of writes it found
Returned(op, arg, r) ==
    /\ writer' = r.w
    /\ call' = Append(call, [op |-> op, arg |-> arg, state |-> writer.state,
                             wire |-> Len(writer.wire)])
    /\ ret' = Some([ok |-> r.ok])
    /\ UNCHANGED <<input, parse, headers, task, server>>

CallWriteStatus ==
    /\ Len(call) < MaxWrites
    /\ \E status \in Statuses : Returned("write_status", status, write_status(writer, status))

CallWriteHeaders ==
    /\ Len(call) < MaxWrites
    /\ \E h \in WriterHeaders : \E o \in Orders(h) :
       Returned("write_headers", h, write_headers(writer, h, o))

CallWriteBodyFull ==
    /\ Len(call) < MaxWrites
    /\ \E body \in WriterBodies :
       Returned("write_body_full", body, write_body_full(writer, body))

CallWriteChunkedBody ==
    /\ Len(call) < MaxWrites
    /\ \E chunk \in WriterChunks :
       Returned("write_chunked_body", chunk, write_chunked_body(writer, chunk))

CallWriteChunkedBodyDone ==
    /\ Len(call) < MaxWrites
    /\ Returned("write_chunked_body_done", <<>>, write_chunked_body_done(writer))

CallWriteTrailers ==
    /\ Len(call) < MaxWrites
    /\ \E body \in WriterBodies : \E o \in Orders(TrailerHeaders(body)) :
       Returned("write_trailers", body, write_trailers(writer, body, o))

CallWriteAll ==
    /\ Len(call) < MaxWrites
    /\ \E response \in WriterResponses : \E o \in Orders(response.headers) :
       Returned("write_all", response, write_all(writer, response, o))

\* the peer closes or resets the connection: from now on writes fail
PeerGone ==
    /\ ~writer.broken
    /\ writer' = [writer EXCEPT !.broken = TRUE]
    /\ UNCHANGED <<input, parse, headers, call, ret, task, server>>

NextWriter ==
    \/ CallWriteStatus
    \/ CallWriteHeaders
    \/ CallWriteBodyFull
    \/ CallWriteChunkedBody
    \/ CallWriteChunkedBodyDone
    \/ CallWriteTrailers
    \/ CallWriteAll
    \/ PeerGone

SpecWriter == InitWriter /\ [][NextWriter]_vars

\* ------------------------------------------------------------ handlers.rs

DEFAULT_BODY == 
    <<"<", "h", "t", "m", "l", ">", LF, " ", " ", "<", "h", "e", "a", "d", ">", LF, " ", " ",
      " ", " ", "<", "t", "i", "t", "l", "e", ">", "2", "0", "0", " ", "O", "K", "<", "/", "t",
      "i", "t", "l", "e", ">", LF, " ", " ", "<", "/", "h", "e", "a", "d", ">", LF, " ", " ",
      "<", "b", "o", "d", "y", ">", LF, " ", " ", " ", " ", "<", "h", "1", ">", "S", "u", "c",
      "c", "e", "s", "s", "!", "<", "/", "h", "1", ">", LF, " ", " ", " ", " ", "<", "p", ">",
      "Y", "o", "u", "r", " ", "r", "e", "q", "u", "e", "s", "t", " ", "w", "a", "s", " ", "a",
      "n", " ", "a", "b", "s", "o", "l", "u", "t", "e", " ", "b", "a", "n", "g", "e", "r", ".",
      "<", "/", "p", ">", LF, " ", " ", "<", "/", "b", "o", "d", "y", ">", LF, "<", "/", "h",
      "t", "m", "l", ">", LF>>

BAD_REQUEST_BODY == 
    <<"<", "h", "t", "m", "l", ">", LF, " ", " ", "<", "h", "e", "a", "d", ">", LF, " ", " ",
      " ", " ", "<", "t", "i", "t", "l", "e", ">", "4", "0", "0", " ", "B", "a", "d", " ", "R",
      "e", "q", "u", "e", "s", "t", "<", "/", "t", "i", "t", "l", "e", ">", LF, " ", " ", "<",
      "/", "h", "e", "a", "d", ">", LF, " ", " ", "<", "b", "o", "d", "y", ">", LF, " ", " ",
      " ", " ", "<", "h", "1", ">", "B", "a", "d", " ", "R", "e", "q", "u", "e", "s", "t", "<",
      "/", "h", "1", ">", LF, " ", " ", " ", " ", "<", "p", ">", "Y", "o", "u", "r", " ", "r",
      "e", "q", "u", "e", "s", "t", " ", "h", "o", "n", "e", "s", "t", "l", "y", " ", "k", "i",
      "n", "d", "a", " ", "s", "u", "c", "k", "e", "d", ".", "<", "/", "p", ">", LF, " ", " ",
      "<", "/", "b", "o", "d", "y", ">", LF, "<", "/", "h", "t", "m", "l", ">", LF>>

INTERNAL_ERROR_BODY == 
    <<"<", "h", "t", "m", "l", ">", LF, " ", " ", "<", "h", "e", "a", "d", ">", LF, " ", " ",
      " ", " ", "<", "t", "i", "t", "l", "e", ">", "5", "0", "0", " ", "I", "n", "t", "e", "r",
      "n", "a", "l", " ", "S", "e", "r", "v", "e", "r", " ", "E", "r", "r", "o", "r", "<", "/",
      "t", "i", "t", "l", "e", ">", LF, " ", " ", "<", "/", "h", "e", "a", "d", ">", LF, " ",
      " ", "<", "b", "o", "d", "y", ">", LF, " ", " ", " ", " ", "<", "h", "1", ">", "I", "n",
      "t", "e", "r", "n", "a", "l", " ", "S", "e", "r", "v", "e", "r", " ", "E", "r", "r", "o",
      "r", "<", "/", "h", "1", ">", LF, " ", " ", " ", " ", "<", "p", ">", "O", "k", "a", "y",
      ",", " ", "y", "o", "u", " ", "k", "n", "o", "w", " ", "w", "h", "a", "t", "?", " ", "T",
      "h", "i", "s", " ", "o", "n", "e", " ", "i", "s", " ", "o", "n", " ", "m", "e", ".", "<",
      "/", "p", ">", LF, " ", " ", "<", "/", "b", "o", "d", "y", ">", LF, "<", "/", "h", "t",
      "m", "l", ">", LF>>

\* HandlerError and HandlerError::to_response
HandlerError(status_code, message) == [status_code |-> status_code, message |-> message]
to_response(e) ==
    with_default_headers(with_body(with_status(HttpResponse_new, e.status_code), e.message))

\* the messages of the errors the handlers make themselves
invalid_endpoint == <<"i", "n", "v", "a", "l", "i", "d", " ", "e", "n", "d", "p", "o", "i", "n", "t">>
no_request_line == 
    <<"N", "o", " ", "r", "e", "q", "u", "e", "s", "t", " ", "l", "i", "n", "e", " ", "f", "o",
      "u", "n", "d">>

\* e.to_string() of an error of the stream, of the file system and of the
\* upstream fetch: texts that stand for whatever the library reports
IoErrorText == 
    <<"B", "r", "o", "k", "e", "n", " ", "p", "i", "p", "e", " ", "(", "o", "s", " ", "e", "r",
      "r", "o", "r", " ", "3", "2", ")">>
OpenErrorText == 
    <<"N", "o", " ", "s", "u", "c", "h", " ", "f", "i", "l", "e", " ", "o", "r", " ", "d", "i",
      "r", "e", "c", "t", "o", "r", "y", " ", "(", "o", "s", " ", "e", "r", "r", "o", "r", " ",
      "2", ")">>
FetchErrorText == 
    <<"e", "r", "r", "o", "r", " ", "s", "e", "n", "d", "i", "n", "g", " ", "r", "e", "q", "u",
      "e", "s", "t">>

\* str::split_once(pat): what stands before and after the first occurrence of
\* pat in s, or None
split_once(s, pat) ==
    LET hits == {i \in 1..(Len(s) - Len(pat) + 1) : SubSeq(s, i, i + Len(pat) - 1) = pat}
        at == CHOOSE i \in hits : \A j \in hits : i <= j
    IN IF hits = {} THEN None
       ELSE Some(<<SubSeq(s, 1, at - 1), drop(s, at + Len(pat) - 1)>>)

\* the canned responses of dispatch_handler and default_handler
CannedResponse(status, body) ==
    with_header(with_default_headers(with_body(with_status(HttpResponse_new, status), body)),
                ContentType, text_html)

\* final_response of video_handler and of proxy_handler
ChunkedResponse(content_type) ==
    with_header(with_header(with_header(with_status(HttpResponse_new, "Ok"),
        TransferEncoding, chunked), ContentType, content_type), Connection, close)
video_mp4 == <<"v", "i", "d", "e", "o", "/", "m", "p", "4">>
application_json == <<"a", "p", "p", "l", "i", "c", "a", "t", "i", "o", "n", "/", "j", "s", "o", "n">>

\* let mut file_buffer = [0u8; 512]
FileBufferSize == 512

\* body_copy keeping the last chunk only
ExtendBodyCopyLast(body_copy, chunk) == chunk

\* body_copy.extend_from_slice(&chunk)
ExtendBodyCopy(body_copy, chunk) == body_copy \o chunk

\* ------------------------------------- server.rs: HttpServer::handle_connection

\* bound of the chunks a handler forwards
MaxChunks == 2

\* what the upstream response and the video file hand out at a time
UpstreamChunks == {<<"a">>, <<"b", "c">>}

\* the requests a peer sends: one for every arm of dispatch_handler, requests
\* with a body, and malformed ones
ConnInputs ==
    { 
    <<"G", "E", "T", " ", "/", "y", "o", "u", "r", "p", "r", "o", "b", "l", "e", "m", " ", "H",
      "T", "T", "P", "/", "1", ".", "1", CR, LF, CR, LF>>,
      
    <<"G", "E", "T", " ", "/", "m", "y", "p", "r", "o", "b", "l", "e", "m", " ", "H", "T", "T",
      "P", "/", "1", ".", "1", CR, LF, CR, LF>>,
      
    <<"G", "E", "T", " ", "/", "h", "t", "t", "p", "b", "i", "n", "/", "x", " ", "H", "T", "T",
      "P", "/", "1", ".", "1", CR, LF, CR, LF>>,
      
    <<"G", "E", "T", " ", "/", "h", "t", "t", "p", "b", "i", "n", " ", "H", "T", "T", "P", "/",
      "1", ".", "1", CR, LF, CR, LF>>,
      
    <<"G", "E", "T", " ", "/", "v", "i", "d", "e", "o", " ", "H", "T", "T", "P", "/", "1", ".",
      "1", CR, LF, CR, LF>>,
      <<"G", "E", "T", " ", "/", " ", "H", "T", "T", "P", "/", "1", ".", "1", CR, LF, CR, LF>>,
      ContentLengthHead(1) \o <<"a">>,
      ChunkedRequest(<<<<"a">>>>),
      <<"P", "U", "T", " ", "/", " ", "H", "T", "T", "P", "/", "1", ".", "1", CR, LF, CR, LF>>,
      
    <<"G", "E", "T", " ", "/", " ", "H", "T", "T", "P", "/", "1", ".", "1", CR, LF, "K", " ",
      "v", CR, LF, CR, LF>>,
      ChunkedHead \o <<"x", CR, LF>> }

\* handle_connection has been spawned for an accepted connection
NewTask ==
    [pc |-> "parse_from", handler |-> "none", response |-> None, by |-> "none",
     dest_url |-> None,
     body_copy |-> <<>>, chunks |-> 0, error |-> None, failed_at |-> 0]

InitConnection ==
    /\ input \in ConnInputs
    /\ parse = NewParse
    /\ headers = Headers_new
    /\ call = <<>>
    /\ ret = None
    /\ writer = ResponseWriter_from
    /\ task = NewTask
    /\ server = <<>>

\* the handler returns Err(e) to handle_connection, w being the writer then
Fail(t, e, w) ==
    [t EXCEPT !.pc = "handler_failed", !.error = Some(e), !.failed_at = Len(w.wire)]

InternalError(message) == HandlerError("InternalServerError", message)

\* handle_connection going on to dispatch_handler however parse_from ended
AwaitParseAny(p) == "dispatch_handler"

\* let request = HttpRequest::parse_from(&mut conn).await?
AwaitParse(p) ==
    CASE p.outcome = "ok" -> "dispatch_handler"
      [] p.outcome = "err" -> "returned_err"
      [] p.outcome = "panic" -> "panicked"

ParseReturns ==
    /\ task.pc = "parse_from"
    /\ parse.outcome \in {"ok", "err", "panic"}
    /\ task' = [task EXCEPT !.pc = AwaitParse(parse)]
    /\ UNCHANGED <<input, parse, headers, call, ret, writer, server>>

\* dispatch_handler, up to the first await of the handler it selects
dispatch_handler(t, req, w) ==
    IF req.request_line = None THEN Fail(t, InternalError(no_request_line), w)
    ELSE LET s == req.request_line[1].target
             to(handler, response) ==
                 [t EXCEPT !.pc = "write_all.status", !.handler = handler,
                           !.response = Some(response), !.by = "handler"]
             end_point == split_once(s, <<"h", "t", "t", "p", "b", "i", "n", "/">>)
         IN IF starts_with(s, <<"/", "y", "o", "u", "r", "p", "r", "o", "b", "l", "e", "m">>)
                THEN to("yourproblem", CannedResponse("BadRequest", BAD_REQUEST_BODY))
            ELSE IF starts_with(s, <<"/", "m", "y", "p", "r", "o", "b", "l", "e", "m">>)
                THEN to("myproblem", CannedResponse("InternalServerError", INTERNAL_ERROR_BODY))
            ELSE IF starts_with(s, <<"/", "h", "t", "t", "p", "b", "i", "n">>)
                THEN IF end_point = None
                     THEN Fail([t EXCEPT !.handler = "proxy"], InternalError(invalid_endpoint), w)
                     ELSE [t EXCEPT !.pc = "reqwest_get", !.handler = "proxy",
                                    !.dest_url = Some(
    <<"h", "t", "t", "p", "s", ":", "/", "/", "h", "t", "t", "p", "b", "i", "n", ".", "o", "r",
      "g", "/">> \o end_point[1][2])]
            ELSE IF starts_with(s, <<"/", "v", "i", "d", "e", "o">>)
                THEN [t EXCEPT !.pc = "file_open", !.handler = "video"]
            ELSE to("default", CannedResponse("Ok", DEFAULT_BODY))

DispatchHandler ==
    /\ task.pc = "dispatch_handler"
    /\ task' = dispatch_handler(task, parse, writer)
    /\ UNCHANGED <<input, parse, headers, call, ret, writer, server>>

\* a writer method called by a handler has returned r: the handler goes on at
\* the await point next, or returns the error of the stream as a HandlerError
Wrote(r, next) ==
    /\ writer' = r.w
    /\ task' = IF r.ok THEN [task EXCEPT !.pc = next]
               ELSE Fail(task, InternalError(IoErrorText), r.w)
    /\ UNCHANGED <<input, parse, headers, call, ret, server>>

\* writer.write_all(&response), called by default_handler and the canned arms
\* of dispatch_handler (task.by = "handler") and by handle_connection, in its
\* three awaits: r is what the writer method returned. An error of the stream
\* becomes a HandlerError in a handler and is returned by handle_connection.
WroteOfAll(r, next) ==
    /\ writer' = r.w
    /\ task' = IF r.ok THEN [task EXCEPT !.pc = next]
               ELSE IF task.by = "handler" THEN Fail(task, InternalError(IoErrorText), r.w)
               ELSE [task EXCEPT !.pc = "returned_err"]
    /\ UNCHANGED <<input, parse, headers, call, ret, server>>

\* self.write_status(&response.status).await?
WriteAllStatus ==
    /\ task.pc = "write_all.status"
    /\ WroteOfAll(write_status(writer, task.response[1].status), "write_all.headers")

\* self.write_headers(&response.headers).await?
WriteAllHeaders ==
    /\ task.pc = "write_all.headers"
    /\ \E o \in Orders(task.response[1].headers) :
          WroteOfAll(write_headers(writer, task.response[1].headers, o), "write_all.body")

\* self.write_body_full(&response.body).await?
WriteAllBody ==
    /\ task.pc = "write_all.body"
    /\ WroteOfAll(write_body_full(writer, task.response[1].body), "returned_ok")

\* proxy_handler: reqwest::get(dest_url).await
ProxyGet ==
    /\ task.pc = "reqwest_get"
    /\ \E fetched \in BOOLEAN :
          task' = IF fetched THEN [task EXCEPT !.pc = "write_status"]
                  ELSE Fail(task, InternalError(FetchErrorText), writer)
    /\ UNCHANGED <<input, parse, headers, call, ret, writer, server>>

\* video_handler: File::open("assets/vim.mp4").await
VideoOpen ==
    /\ task.pc = "file_open"
    /\ \E opened \in BOOLEAN :
          task' = IF opened THEN [task EXCEPT !.pc = "write_status"]
                  ELSE Fail(task, InternalError(OpenErrorText), writer)
    /\ UNCHANGED <<input, parse, headers, call, ret, writer, server>>

\* writer.write_status(&final_response.status) of video_handler and proxy_handler
HandlerWriteStatus ==
    /\ task.pc = "write_status"
    /\ Wrote(write_status(writer, "Ok"), "write_headers")

\* writer.write_headers(&final_response.headers) of video_handler and proxy_handler
HandlerWriteHeaders ==
    /\ task.pc = "write_headers"
    /\ LET h == ChunkedResponse(IF task.handler = "video" THEN video_mp4
                                ELSE application_json).headers
       IN \E o \in Orders(h) :
             Wrote(write_headers(writer, h, o), IF task.handler = "video" THEN "read" ELSE "chunk")

\* the body of the forwarding loop of both handlers: the chunk is appended to
\* body_copy and written with write_chunked_body
Forward(chunk, next) ==
    /\ task.chunks < MaxChunks
    /\ LET r == write_chunked_body(writer, chunk)
           t == [task EXCEPT !.body_copy = ExtendBodyCopy(@, chunk), !.chunks = @ + 1]
       IN /\ writer' = r.w
          /\ task' = IF r.ok THEN [t EXCEPT !.pc = next]
                     ELSE Fail(t, InternalError(IoErrorText), r.w)
    /\ UNCHANGED <<input, parse, headers, call, ret, server>>

\* proxy_handler: dest_response.chunk().await gives a chunk, the end of the
\* upstream body, or an error
ProxyChunk ==
    /\ task.pc = "chunk"
    /\ \/ \E chunk \in UpstreamChunks : Forward(chunk, "chunk")
       \/ /\ task' = [task EXCEPT !.pc = "write_chunked_body_done"]
          /\ UNCHANGED <<input, parse, headers, call, ret, writer, server>>
       \/ /\ task' = Fail(task, InternalError(FetchErrorText), writer)
          /\ UNCHANGED <<input, parse, headers, call, ret, writer, server>>

\* video_handler: f.read(&mut file_buffer).await gives n > 0 bytes, or the loop
\* ends: on n == 0 and, `while let Ok(n)`, on an error of the read
VideoRead ==
    /\ task.pc = "read"
    /\ \/ \E chunk \in UpstreamChunks :
             /\ Len(chunk) <= FileBufferSize
             /\ Forward(chunk, "read")
       \/ /\ task' = [task EXCEPT !.pc = "write_chunked_body_done"]
          /\ UNCHANGED <<input, parse, headers, call, ret, writer, server>>

\* writer.write_chunked_body_done() of video_handler and proxy_handler
HandlerChunkedDone ==
    /\ task.pc = "write_chunked_body_done"
    /\ Wrote(write_chunked_body_done(writer), "write_trailers")

\* writer.write_trailers(&body_copy) of video_handler and proxy_handler
HandlerWriteTrailers ==
    /\ task.pc = "write_trailers"
    /\ \E o \in Orders(TrailerHeaders(task.body_copy)) :
          Wrote(write_trailers(writer, task.body_copy, o), "returned_ok")

\* handle_connection: if let Err(e) = dispatch_handler(..) {
\*     writer.write_all(&e.to_response()).await? }, up to the first await
HandleError ==
    /\ task.pc = "handler_failed"
    /\ task' = [task EXCEPT !.pc = "write_all.status", !.by = "handle_connection",
                            !.response = Some(to_response(task.error[1]))]
    /\ UNCHANGED <<input, parse, headers, call, ret, writer, server>>

NextConnection ==
    \/ IterateInitialized
    \/ IterateParsingHeaders
    \/ IterateParsingBodyFull
    \/ IterateParsingBodyChunked
    \/ IterateDone
    \/ ParseReturns
    \/ DispatchHandler
    \/ WriteAllStatus
    \/ WriteAllHeaders
    \/ WriteAllBody
    \/ ProxyGet
    \/ VideoOpen
    \/ HandlerWriteStatus
    \/ HandlerWriteHeaders
    \/ ProxyChunk
    \/ VideoRead
    \/ HandlerChunkedDone
    \/ HandlerWriteTrailers
    \/ HandleError
    \/ PeerGone

SpecConnection == InitConnection /\ [][NextConnection]_vars

\* ------------------------------------------ main.rs and HttpServer::listen

\* bound of the connections that clients open
MaxConns == 3

\* main has called HttpServer::serve and spawned the task that runs listen, and
\* awaits ctrl_c:
\*   main     where main stands: "ctrl_c", "handle.await", "exited"
\*   channel  the one-shot channel: "empty", "sent", "received"
\*   listen   the listen task: in its "select", or "returned_ok", "returned_err"
\*   backlog  the connections that wait to be accepted
\*   opened   the connections opened so far
\*   tasks    the connection tasks spawned, each at the await of
\*            handle_connection it stands at ("parse_from", "dispatch_handler"),
\*            or "returned", or "cancelled" (dropped with the runtime)
InitListen ==
    /\ input = <<>> /\ parse = NewParse /\ headers = Headers_new
    /\ call = <<>> /\ ret = None
    /\ writer = <<>> /\ task = <<>>
    /\ server = [main |-> "ctrl_c", channel |-> "empty", listen |-> "select",
                 backlog |-> 0, opened |-> 0, tasks |-> <<>>]

Others == <<input, parse, headers, call, ret, writer, task>>

\* a client connects to the listening socket
ClientConnects ==
    /\ server.opened < MaxConns
    /\ server.main # "exited"
    /\ server' = [server EXCEPT !.backlog = @ + 1, !.opened = @ + 1]
    /\ UNCHANGED Others

\* select!: result = self.listener.accept() is taken, with a connection, and
\* handle_connection is spawned for it
ListenAccept ==
    /\ server.listen = "select"
    /\ server.backlog > 0
    /\ server' = [server EXCEPT !.backlog = @ - 1, !.tasks = Append(@, "parse_from")]
    /\ UNCHANGED Others

\* select!: result = self.listener.accept() is taken, with an error: result?
ListenAcceptFails ==
    /\ server.listen = "select"
    /\ server' = [server EXCEPT !.listen = "returned_err"]
    /\ UNCHANGED Others

\* select!: _ = &mut self.close_conn_rx is taken: break, Ok(())
ListenShutdown ==
    /\ server.listen = "select"
    /\ server.channel = "sent"
    /\ server' = [server EXCEPT !.channel = "received", !.listen = "returned_ok"]
    /\ UNCHANGED Others

\* a connection task goes on from an await of handle_connection to the next
ConnectionStep ==
    /\ server.main # "exited"
    /\ \E i \in 1..Len(server.tasks) :
          /\ server.tasks[i] \in {"parse_from", "dispatch_handler"}
          /\ server' = [server EXCEPT !.tasks[i] =
                            IF @ = "parse_from" THEN "dispatch_handler" ELSE "returned"]
    /\ UNCHANGED Others

\* main: tokio::signal::ctrl_c().await?; cancel_ch.send(()).ok()
CtrlC ==
    /\ server.main = "ctrl_c"
    /\ server' = [server EXCEPT !.main = "handle.await",
                                !.channel = IF server.listen = "select" THEN "sent" ELSE @]
    /\ UNCHANGED Others

\* main: handle.await returns, main returns Ok(()), and the runtime is dropped
\* with the connection tasks that have not returned
MainReturns ==
    /\ server.main = "handle.await"
    /\ server.listen # "select"
    /\ server' = [server EXCEPT !.main = "exited",
                                !.tasks = [i \in 1..Len(@) |->
                                              IF @[i] = "returned" THEN "returned" ELSE "cancelled"]]
    /\ UNCHANGED Others

NextListen ==
    \/ ClientConnects
    \/ ListenAccept
    \/ ListenAcceptFails
    \/ ListenShutdown
    \/ ConnectionStep
    \/ CtrlC
    \/ MainReturns

SpecListen == InitListen /\ [][NextListen]_vars

\* ------------------------------- headers written by fmt, read by parse_from

\* the names and the values of the header sets that are written and read back
SetNames == {<<"K">>, <<"k">>, <<"A", "-", "b">>}
SetValues == {<<>>, <<"v">>, <<"w", ":", " ", "x">>}

\* the header sets: what Headers::insert builds of these names and values
HeaderSets == UNION {[D -> SetValues] : D \in SUBSET SetNames}

\* a header set has been formatted, the map iterated in some order, and is
\* sent after a request line and before the blank line
InitRoundTrip ==
    /\ headers \in HeaderSets
    /\ \E o \in Orders(headers) : input = GetLine \o CRLF \o Headers_fmt(headers, o) \o CRLF
    /\ parse = NewParse
    /\ call = <<>>
    /\ ret = None
    /\ NotServing

NextRoundTrip ==
    \/ IterateInitialized
    \/ IterateParsingHeaders
    \/ IterateDone

SpecRoundTrip == InitRoundTrip /\ [][NextRoundTrip]_vars

\* ------------------------- parse_from on a connection that the peer keeps open

\* requests that are complete: a chunked one up to its last chunk, one with
\* Content-Length: N up to its N body bytes (N = 0 among them), one without a
\* body up to the blank line
CompleteRequests ==
    {c.input : c \in ChunkedCases}
      \cup {ContentLengthHead(Len(b)) \o b : b \in Bodies}
      \cup {c.input : c \in HeaderCases}

\* the peer has sent a request and waits for the response with the connection
\* open: a read finds what has arrived, or does not return
InitKeptOpen ==
    /\ input \in CompleteRequests \cup TruncatedInputs
    /\ parse = [NewParse EXCEPT !.open = TRUE]
    /\ Idle

SpecKeptOpen == InitKeptOpen /\ [][Next]_vars

\* ================================================================== claims

Finished == parse.outcome # "running"

\* what parse_from hands back: the request when it returns Ok, else how it ended
Result(p) ==
    IF p.outcome = "ok" THEN <<"ok", p.request_line, p.headers, p.body>>
    ELSE <<p.outcome>>

\* C1: when the first read delivers a prefix of the request and the next read
\* the rest, parse_from ends as it does when one read delivers all of it: with
\* the same request, or the same failure. (Stated of the runs that end having
\* read no more than the prefix: the rest is still to come.)
C1_SplitReadsAgree ==
    (Finished /\ parse.pos = parse.first_read) =>
        \E build \in Builds : Result(parse) = Result(RunWhole(NewParse, input, build))

\* C2: once a read has returned 0 bytes (end of input) in a parser state other
\* than Done, parse_from ends, and ends with a failure.
C2_EndOfInputFails ==
    (parse.eof /\ Finished) => parse.outcome = "err"

\* C3: whenever parse_from returns Ok(request), the parser state of the request
\* is Done (an incomplete chunk makes it read more, not return).
C3_OkIsDone ==
    parse.outcome = "ok" => parse.parser_state = "Done"

\* C4: a request whose body is B cut into chunks, each sent as
\* <hex-size> CRLF <data> CRLF, and ended by 0 CRLF CRLF, is parsed to a request
\* whose body is B.
C4_ChunkedRoundTrip ==
    Finished =>
        \A c \in ChunkedCases :
            input = c.input =>
                /\ parse.outcome = "ok"
                /\ parse.parser_state = "Done"
                /\ parse.body = c.body

\* C5: for a request with Content-Length: N whose head (request line, headers,
\* blank line) came with the first read, or whose head parse_from has got
\* past, parse_from ends with Ok, in Done, the body being the first N bytes
\* after the blank line, however those bytes are spread over the reads.
C5_ContentLengthBody ==
    Finished =>
        \A c \in ContentLengthCases :
            (/\ input = c.input
             /\ \/ parse.first_read >= c.head
                \/ parse.parser_state \in {"ParsingBodyFull", "Done"})
            => /\ parse.outcome = "ok"
               /\ parse.parser_state = "Done"
               /\ parse.body = c.body

\* C5 witness: a body of two bytes or more, the first read having ended inside
\* it, has been parsed in full.
C5_Witness ==
    \E c \in ContentLengthCases :
        /\ input = c.input
        /\ Len(c.body) >= 2
        /\ parse.first_read > c.head
        /\ parse.first_read < c.head + Len(c.body)
        /\ parse.outcome = "ok"
        /\ parse.body = c.body

\* the values, in order of arrival, of the fields whose name is key in lowercase
ValuesOf(fields, key) ==
    LET Named(f) == to_lowercase(f[1]) = key
        sel == SelectSeq(fields, Named)
    IN [i \in 1..Len(sel) |-> sel[i][2]]

\* C6: a field name that occurs k >= 2 times in the header block (in any letter
\* case) has one entry, under its lowercased name, whose value is the k values
\* joined by ", " in order of arrival, empty values included.
C6_DuplicatesJoined ==
    parse.outcome = "ok" =>
        \A c \in HeaderCases :
            input = c.input =>
                \A i \in 1..Len(c.fields) :
                    LET key == to_lowercase(c.fields[i][1])
                        vs == ValuesOf(c.fields, key)
                    IN Len(vs) >= 2 =>
                        /\ key \in DOMAIN parse.headers
                        /\ parse.headers[key] = JoinWith(vs, <<",", " ">>)

\* C7: after insert(n, v), get(n') returns v for every n' equal to n up to
\* letter case.
C7_GetIgnoresCase ==
    \A i \in 1..(Len(call) - 1) :
        LET g == call[Len(call)]
            same(a, b) == to_lowercase(a) = to_lowercase(b)
        IN (/\ g.op = "get"
            /\ call[i].op = "insert"
            /\ same(call[i].k, g.k)
            /\ \A j \in (i + 1)..(Len(call) - 1) :
                  ~(call[j].op = "insert" /\ same(call[j].k, g.k)))
           => ret = Some(call[i].v)

MethodSpellings == {<<<<"G", "E", "T">>, "Get">>, <<<<"p", "O", "s", "T">>, "Post">>}
TargetSpellings ==
    {<<<<"/">>, <<"/">>>>, <<<<"/", "A", "b">>, <<"/", "a", "b">>>>,
     <<<<"/", INVALID>>, <<"/", REPL>>>>}
VersionSpellings ==
    {<<"H", "T", "T", "P", "/", "1", ".", "1">>, <<"h", "T", "T", "p", "/", "1", ".", "1">>}

\* C8: for a line m SP t SP v CRLF, m being GET or POST in any letter case, t
\* beginning with '/', v being HTTP/1.1 in any letter case, parse_request_line
\* returns the method of m, t in lowercase, HTTP/1.1, and as consumed count
\* the number of bytes of the line plus 2.
C8_ValidRequestLine ==
    (ret # None /\ call[1].end # <<>>) =>
        \A m \in MethodSpellings, t \in TargetSpellings, v \in VersionSpellings :
            call[1].tokens = <<m[1], t[1], v>> =>
                ret[1] = Ok(Some([method |-> m[2], target |-> t[2], version |-> "HTTP11"]),
                            Len(m[1]) + 1 + Len(t[1]) + 1 + Len(v) + 2)

\* C9: parse_request_line fails on every CRLF-terminated line that is not
\* exactly three whitespace-separated tokens: on fewer, and on more.
C9_NotThreeTokensFails ==
    (ret # None /\ call[1].end # <<>> /\ Len(call[1].tokens) # 3) => ~ret[1].ok

TokenChars ==
    {UpperChars[k] : k \in 1..26} \cup {LowerChars[k] : k \in 1..26}
      \cup {Digits[k] : k \in 1..10} \cup TokenSpecials

\* C10: on a CRLF-terminated line that is not blank, parse_headers fails when
\* the line has no ':', when the field name (what stands before the first ':',
\* leading whitespace of the line aside) is empty, ends in whitespace, or has a
\* char outside the token set; when it succeeds it returns the name in
\* lowercase and the value without its surrounding whitespace.
C10_HeaderLine ==
    (ret # None /\ call[1].end # <<>>) =>
        LET line == call[1].line
            solid == {i \in 1..Len(line) : ~IsWhitespace(line[i])}
            colons == {i \in 1..Len(line) : line[i] = ":"}
            first == CHOOSE i \in solid : \A j \in solid : i <= j
            last == CHOOSE i \in solid : \A j \in solid : i >= j
            colon == CHOOSE i \in colons : \A j \in colons : i <= j
            name == SubSeq(line, first, colon - 1)
            after == {i \in solid : i > colon}
            value == IF after = {} THEN <<>>
                     ELSE SubSeq(line, CHOOSE i \in after : \A j \in after : i <= j, last)
            bad == \/ colons = {}
                   \/ name = <<>>
                   \/ IsWhitespace(name[Len(name)])
                   \/ \E i \in 1..Len(name) : name[i] \notin TokenChars
        IN solid # {} =>
            /\ bad => ~ret[1].ok
            /\ (ret[1].ok /\ ret[1].value # None) =>
                  ret[1].value = Some(<<to_lowercase(name), value>>)

\* C10 witness: "A: - " has been parsed (a name with an uppercase letter, a
\* value with whitespace on both sides)
C10_Witness ==
    /\ ret # None
    /\ call[1].line = <<"A", ":", " ", "-", " ">>
    /\ call[1].end = CRLF
    /\ ret[1].ok
    /\ ret[1].value # None

\* C11: parse_headers returns an error on a header block whose last header
\* line has no CRLF after it: here a complete header line, CRLF, and the
\* unterminated line "K", with no empty line to close the block. The error is
\* looked for in the call on the block and in the call on what the first call
\* left unconsumed.
C11_UnterminatedLastLine ==
    (/\ ret # None
     /\ call[1].op = "parse_headers"
     /\ call[1].end = CRLF \o <<"K">>
     /\ trim(call[1].line) # <<>>)
    => \/ ~ret[1].ok
       \/ ~parse_headers(drop(call[1].data, ret[1].consumed)).ok

\* the writer state in which the phase of the operation op begins
Phase(op) ==
    CASE op \in {"write_status", "write_all"} -> "Initial"
      [] op = "write_headers" -> "WritingHeaders"
      [] op = "write_body_full" -> "WritingBodyFull"
      [] op \in {"write_chunked_body", "write_chunked_body_done"} -> "WritingBodyChunked"
      [] op = "write_trailers" -> "WritingTrailers"

\* C12: a writer operation called in a state other than the one its phase
\* begins in returns an error and puts no bytes on the wire.
C12_OutOfPhaseRejected ==
    (call # <<>> /\ call[Len(call)].state # Phase(call[Len(call)].op)) =>
        /\ ~ret[1].ok
        /\ Len(writer.wire) = call[Len(call)].wire

\* C14: after write_headers(headers) has returned Ok, the writer state is
\* WritingBodyChunked when headers holds Transfer-Encoding (in any letter case)
\* with the value chunked, and WritingBodyFull otherwise.
C14_ChunkedStateAfterHeaders ==
    (call # <<>> /\ call[Len(call)].op = "write_headers" /\ ret[1].ok) =>
        LET h == call[Len(call)].arg
            holds == \E k \in DOMAIN h :
                        /\ to_lowercase(k) = to_lowercase(TransferEncoding)
                        /\ h[k] = chunked
        IN writer.state = IF holds THEN "WritingBodyChunked" ELSE "WritingBodyFull"

Rank(state) ==
    CASE state = "Initial" -> 0
      [] state = "WritingHeaders" -> 1
      [] state \in {"WritingBodyFull", "WritingBodyChunked"} -> 2
      [] state = "WritingTrailers" -> 3
      [] state = "Done" -> 4

\* C13: over the writer operations performed on a connection, the error
\* response of handle_connection included, the writer state never moves back in
\* the order Initial, WritingHeaders, WritingBodyFull or WritingBodyChunked,
\* WritingTrailers, Done.
C13_StateMovesForward ==
    [][Rank(writer'.state) >= Rank(writer.state)]_vars

Finished_task == task.pc \in {"returned_ok", "returned_err"}

\* the places of the wire where `what` was written
Places(what) == {i \in 1..Len(writer.wire) : writer.wire[i].what = what}

\* the bytes of the chunk data written before the place i of the wire
RECURSIVE ChunkData(_)
ChunkData(i) ==
    IF i <= 1 THEN <<>>
    ELSE ChunkData(i - 1) \o
         (IF writer.wire[i - 1].what = "chunk_data" THEN writer.wire[i - 1].bytes ELSE <<>>)

\* the trailer lines for the body data, in the one and the other order
TrailerLines(data) ==
    LET sha == XContentSHA256 \o <<":", " ">> \o Sha256_digest(data) \o CRLF
        len == XContentLength \o <<":", " ">> \o Decimal(Len(data)) \o CRLF
    IN {sha \o len, len \o sha}

\* the video or the proxy handler has written the status line and the headers
\* of its chunked response
ChunkedStarted ==
    /\ task.handler \in {"proxy", "video"}
    /\ IF task.error = None THEN Len(writer.wire) >= 2 ELSE task.failed_at >= 2

\* C15: a chunked response that the video or the proxy handler has started
\* (status line and headers written) is, once the connection task has ended
\* with the peer still there, on the wire as: status, headers, chunks, then one
\* "0 CRLF" after all chunk data, then the two trailer lines, then CRLF, and
\* nothing after.
C15_ChunkedResponseEnds ==
    (Finished_task /\ ChunkedStarted /\ ~writer.broken)
    => LET wire == writer.wire
           n == Len(wire)
           k == (n - 5) \div 3
       IN /\ n = 5 + 3 * k
          /\ wire[1].what = "status" /\ wire[2].what = "headers"
          /\ \A j \in 1..k : /\ wire[3 * j].what = "chunk_size"
                             /\ wire[3 * j + 1].what = "chunk_data"
                             /\ wire[3 * j + 2].what = "chunk_end"
          /\ wire[n - 2] = [what |-> "last_chunk", bytes |-> <<"0">> \o CRLF]
          /\ wire[n - 1].what = "trailers"
          /\ wire[n - 1].bytes \in TrailerLines(ChunkData(n - 1))
          /\ wire[n] = [what |-> "end", bytes |-> CRLF]

\* C16: the trailers written for a chunked response are X-Content-Length with
\* the number of chunk-data bytes written to the stream by write_chunked_body
\* before, and X-Content-SHA256 with the digest of those bytes in the order
\* they were written.
C16_TrailersMatchBody ==
    \A i \in Places("trailers") : writer.wire[i].bytes \in TrailerLines(ChunkData(i))

\* C16 witness: the proxy handler has forwarded two chunks of different
\* lengths and has written the trailers
C16_Witness ==
    /\ task.handler = "proxy"
    /\ task.pc = "returned_ok"
    /\ Places("trailers") # {}
    /\ Cardinality(Places("chunk_data")) = 2
    /\ Len(ChunkData(Len(writer.wire))) = 3

\* C17: in a run of handle_connection at most one status line is written to
\* the connection, also when the handler fails after it has written part of a
\* response.
C17_OneStatusLine ==
    Cardinality(Places("status")) <= 1

\* C18: when the handler has failed with nothing written to the connection
\* yet, the response that handle_connection then writes is the status line
\* 500 Internal Server Error, headers, and as body the canned internal-error
\* page.
C18_CannedPageOnFailure ==
    (task.pc = "returned_ok" /\ task.error # None /\ task.failed_at = 0) =>
        /\ Len(writer.wire) = 3
        /\ writer.wire[1] = [what |-> "status",
                             bytes |-> HttpStatus_fmt("InternalServerError") \o CRLF]
        /\ writer.wire[2].what = "headers"
        /\ writer.wire[3] = [what |-> "body", bytes |-> INTERNAL_ERROR_BODY]

\* C19: when parse_from has failed with an error, handle_connection returns it:
\* no handler is dispatched to and nothing is written to the connection.
C19_CodecErrorEndsTask ==
    parse.outcome = "err" =>
        /\ task.pc \in {"parse_from", "returned_err"}
        /\ task.handler = "none"
        /\ task.error = None
        /\ writer.wire = <<>>

NoColonRequest ==
    <<"G", "E", "T", " ", "/", " ", "H", "T", "T", "P", "/", "1", ".", "1", CR, LF, "K", " ",
      "v", CR, LF, CR, LF>>

\* C19 witness: a request with a header line that has no ':' has made
\* parse_from fail, and handle_connection has returned
C19_Witness ==
    /\ input = NoColonRequest
    /\ parse.outcome = "err"
    /\ task.pc = "returned_err"

\* C20: once the listen task has received the shutdown signal no connection
\* is accepted any more, and no connection task that was spawned is cut off
\* by the shutdown: each still runs until handle_connection returns.
C20_GracefulShutdown ==
    [][server.channel = "received" =>
          /\ Len(server'.tasks) = Len(server.tasks)
          /\ \A i \in 1..Len(server'.tasks) : server'.tasks[i] # "cancelled"]_vars

\* the upstream base of the proxy
HttpbinOrg ==
    <<"h", "t", "t", "p", "s", ":", "/", "/", "h", "t", "t", "p", "b", "i", "n", ".", "o", "r", "g", "/">>

\* the target of the request that was dispatched
Target == parse.request_line[1].target

\* the response of the handler is the canned page `body` with `status`, and
\* among its headers exactly one is a Content-Type, of value text/html
CannedPage(status, body) ==
    task.by = "handler" =>
        /\ task.response # None
        /\ task.response[1].status = status
        /\ task.response[1].body = body
        /\ LET h == task.response[1].headers
               types == {k \in DOMAIN h : to_lowercase(k) = to_lowercase(ContentType)}
           IN /\ Cardinality(types) = 1
              /\ \A k \in types : h[k] = text_html

\* C21: the handler that dispatch_handler selects follows the target: one
\* beginning /yourproblem gets the canned 400 page with a single Content-Type
\* text/html, one beginning /myproblem the canned 500 page, /httpbin/<rest> is
\* proxied to https://httpbin.org/<rest>, one beginning /video is streamed by
\* the video handler, and every other target gets the canned 200 page.
C21_DispatchByPrefix ==
    task.handler # "none" =>
        IF starts_with(Target, <<"/", "y", "o", "u", "r", "p", "r", "o", "b", "l", "e", "m">>)
            THEN task.handler = "yourproblem" /\ CannedPage("BadRequest", BAD_REQUEST_BODY)
        ELSE IF starts_with(Target, <<"/", "m", "y", "p", "r", "o", "b", "l", "e", "m">>)
            THEN /\ task.handler = "myproblem"
                 /\ CannedPage("InternalServerError", INTERNAL_ERROR_BODY)
        ELSE IF starts_with(Target, <<"/", "h", "t", "t", "p", "b", "i", "n", "/">>)
            THEN /\ task.handler = "proxy"
                 /\ task.dest_url = Some(HttpbinOrg \o drop(Target, 9))
        ELSE IF starts_with(Target, <<"/", "v", "i", "d", "e", "o">>)
            THEN task.handler = "video"
        ELSE task.handler = "default" /\ CannedPage("Ok", DEFAULT_BODY)

\* the lines of a header block: what stands before each CRLF
RECURSIVE Lines(_)
Lines(bytes) ==
    LET at == find2(bytes, CRLF)
    IN IF at = 0 THEN {}
       ELSE {SubSeq(bytes, 1, at - 1)} \cup Lines(drop(bytes, at + 1))

\* the values of the Content-Length lines of a header block
ContentLengths(bytes) ==
    LET name == ContentLength \o <<":", " ">>
    IN {drop(l, Len(name)) : l \in {x \in Lines(bytes) : starts_with(x, name)}}

\* C22: wherever write_all has written a body to the connection, the header
\* block written just before it has one Content-Length line, and its value is
\* the decimal number of the body bytes written.
C22_ContentLengthIsBodyLength ==
    \A i \in Places("body") :
        /\ i > 1
        /\ writer.wire[i - 1].what = "headers"
        /\ ContentLengths(writer.wire[i - 1].bytes) = {Decimal(Len(writer.wire[i].bytes))}

\* C22 witness: the response made from a HandlerError has been written, with
\* its message as body
C22_Witness ==
    /\ task.pc = "returned_ok"
    /\ task.by = "handle_connection"
    /\ Places("body") # {}
    /\ writer.wire[Len(writer.wire)] = [what |-> "body", bytes |-> invalid_endpoint]

\* C23: when parse_from has read the header block that fmt wrote for the
\* header set H, the headers of the request give, for every name of H looked
\* up in any letter case, the value H has for it, and have no entry for any
\* other name.
C23_HeadersRoundTrip ==
    parse.outcome = "ok" =>
        /\ \A name \in DOMAIN headers :
              \A spelling \in {name, to_lowercase(name), to_uppercase(name)} :
                  Headers_get(parse.headers, spelling) = Some(headers[name])
        /\ \A k \in DOMAIN parse.headers :
              \E name \in DOMAIN headers : to_lowercase(name) = k

\* the states the parser may be in after an iteration begun in state s
Successors(s) ==
    CASE s = "Initialized" -> {"Initialized", "ParsingHeaders"}
      [] s = "ParsingHeaders" ->
            {"ParsingHeaders", "ParsingBodyFull", "ParsingBodyChunked", "Done"}
      [] s = "ParsingBodyFull" -> {"ParsingBodyFull", "Done"}
      [] s = "ParsingBodyChunked" -> {"ParsingBodyChunked", "Done"}
      [] s = "Done" -> {"Done"}

\* C24: parse_from starts in Initialized, and every iteration of its loop
\* leaves the parser state as it is or moves it along Initialized ->
\* ParsingHeaders -> ParsingBodyFull, ParsingBodyChunked or Done -> Done: never
\* to an earlier state, and never away from Done.
C24_ParserStateMovesForward ==
    /\ parse.parser_state = "Initialized"
    /\ [][parse'.parser_state \in Successors(parse.parser_state)]_vars

\* C24 witness: a run has gone through ParsingBodyChunked and has reached Done
C24_Witness ==
    /\ parse.parser_state = "Done"
    /\ to_lowercase(TransferEncoding) \in DOMAIN parse.headers
    /\ parse.body # <<>>

\* the value the request has for the lowercase of `name`, if it has one
Merged(h, name) ==
    IF to_lowercase(name) \in DOMAIN h THEN Some(h[to_lowercase(name)]) ELSE None

\* C25: the iteration that consumes the blank line after the headers leaves
\* ParsingHeaders for ParsingBodyChunked if the merged transfer-encoding value
\* is "chunked", whether or not there is a content-length; else for Done, the
\* body empty, if there is no content-length; else for ParsingBodyFull.
C25_StateAfterHeaders ==
    [][(parse.parser_state = "ParsingHeaders" /\ parse'.parser_state # "ParsingHeaders")
        => IF Merged(parse'.headers, TransferEncoding) = Some(chunked)
               THEN parse'.parser_state = "ParsingBodyChunked"
           ELSE IF Merged(parse'.headers, ContentLength) = None
               THEN parse'.parser_state = "Done" /\ parse'.body = <<>>
           ELSE parse'.parser_state = "ParsingBodyFull"]_vars

\* C25 witness: the headers had transfer-encoding: chunked and a
\* content-length, and the parser has gone on to ParsingBodyChunked
C25_Witness ==
    /\ parse.parser_state = "ParsingBodyChunked"
    /\ Merged(parse.headers, TransferEncoding) = Some(chunked)
    /\ Merged(parse.headers, ContentLength) # None

\* what the buffer holds when an iteration comes to its match: what was left
\* in it or, the buffer being empty, what the read at the top has delivered
Buffered == IF parse.buffer_len = 0 THEN SubSeq(input, parse.pos + 1, parse'.pos)
            ELSE parse.buffer

\* C26: an iteration takes the parser from ParsingBodyChunked to Done only
\* when the buffered data are a size line followed by CRLF CRLF, that is when
\* the first CRLF of the buffer is followed at once by a second one.
C26_ZeroChunkNeedsBlankLine ==
    [][(parse.parser_state = "ParsingBodyChunked" /\ parse'.parser_state = "Done")
        => LET at == find2(Buffered, CRLF)
           IN /\ at > 0
              /\ Len(Buffered) >= at + 3
              /\ SubSeq(Buffered, at, at + 3) = CRLF \o CRLF]_vars

\* C27: parse_headers fails on a CRLF-terminated line that begins with
\* whitespace and is not blank (a continuation line of obsolete line folding):
\* it returns no header for it.
C27_FoldedLineRejected ==
    (/\ ret # None
     /\ call[1].op = "parse_headers"
     /\ call[1].end # <<>>
     /\ call[1].line # <<>>
     /\ IsWhitespace(call[1].line[1])
     /\ trim(call[1].line) # <<>>)
    => ~ret[1].ok

\* C28: in every step of parse_from, on every input, no reduction takes more
\* bytes out of the buffer than it holds: the subtraction from buffer_len never
\* underflows (no panic where overflow is checked, no wrapped value where it
\* is not), and buffer_len stays within 0..1024.
C28_BufferAccounting ==
    /\ parse.outcome # "panic"
    /\ parse.buffer_len \in 0..BufSize

\* parse_from is in conn.read(..).await and nothing is there to be read
BlockedInRead ==
    /\ parse.outcome = "running"
    /\ parse.buffer_len = 0
    /\ parse.parser_state # "Done"
    /\ parse.pos = Len(input)

\* C29: when the peer keeps the connection open and all bytes of a complete
\* request have been read from it, parse_from is not in a read that waits for
\* more: it goes on to Done with what it has.
C29_NoReadAfterCompleteRequest ==
    (parse.open /\ input \in CompleteRequests) => ~BlockedInRead

====
